---- MODULE Spec2Model ----
(***************************************************************************)
(* Model of package serial (wenij/serial): the SerialPort session, its two *)
(* background goroutines (readSerialPort, processSerialPort), the          *)
(* bytes.Buffer they share with the callers, and the pattern wait          *)
(* (WaitForRegexTimeout) with the goroutine it spawns.                     *)
(*                                                                         *)
(* Bytes are integers 0..255.  Channels are identified by the number of    *)
(* the Open() that made them.  Time is abstract: a timer that has been     *)
(* armed may fire at any later step.  The fields of SerialPort and of      *)
(* bytes.Buffer are read and written without any lock, so a method is      *)
(* split into steps where another goroutine can run between its loads and  *)
(* stores.  A panic stops the program: crashed holds its message and no    *)
(* action is enabled any more.                                             *)
(***************************************************************************)
EXTENDS Integers, Sequences, FiniteSets, TLC

(***************************************************************************)
(* Bounds of the model.                                                    *)
(***************************************************************************)
\* successful Open() calls in one behaviour
MaxOpens == 2
\* WaitForRegexTimeout() calls that get as far as spawning a search task
MaxWaits == 2
\* most bytes one Transport read returns
MaxChunk == 2
\* API calls the caller makes in one behaviour
MaxCalls == 3
\* most bytes processSerialPort collects in screenBuff from a closed channel
MaxLine == 2

(***************************************************************************)
(* Program constants.                                                      *)
(***************************************************************************)
EOL_DEFAULT == 10
CR == 13
LF == 10
\* len of the slice New() gives bytes.NewBuffer: the initial CONTENTS
NewBuffLen == 1024

(***************************************************************************)
(* Inputs: the byte streams a device may produce after an Open(), the      *)
(* arguments of Open(), the patterns, the EOL bytes.                       *)
(*   "R\nK\n"   "K\rK\n"   "A;\r\n", and after a re-Open()   "K\n"          *)
(***************************************************************************)
Streams ==
    { <<82, 10, 75, 10>>,
      <<75, 13, 75, 10>>,
      <<65, 59, 13, 10>> }
ReopenStreams == { <<75, 10>> }
\* what the device behind Open() number k may send
StreamsOf(k) == IF k = 1 THEN Streams ELSE ReopenStreams

OpenArgs ==
    { [name |-> "COM1", baud |-> 9600, timeout |-> "default"],
      [name |-> "COM2", baud |-> 115200, timeout |-> "5s"] }

\* "K.*" compiles; "K(" does not (missing closing parenthesis)
Patterns == { "K.*", "K(" }

EolBytes == { 10, 59 }

Gens == 1..MaxOpens
Tasks == 1..MaxWaits
\* who calls ReadLine(): the caller's goroutine (0) or a search task
Callers == {0} \cup Tasks

(***************************************************************************)
(* Sequences of bytes.                                                     *)
(***************************************************************************)
\* bytes.IndexByte: the 1-based index of the first c in s, 0 when absent
IndexByte(s, c) ==
    IF \E i \in 1..Len(s) : s[i] = c
    THEN CHOOSE i \in 1..Len(s) : s[i] = c /\ \A j \in 1..(i - 1) : s[j] # c
    ELSE 0

IsEolByte(b) == b = CR \/ b = LF

\* removeEOL: every byte of line that is neither '\r' nor '\n', in order
removeEOL(line) == SelectSeq(line, LAMBDA b : ~IsEolByte(b))

(***************************************************************************)
(* regexp, for the patterns of the model.                                  *)
(***************************************************************************)
Compiles(exp) == exp = "K.*"

\* where a match of "K.*" can start in line
MatchStarts(line) == { i \in 1..Len(line) : line[i] = 75 }

\* "." does not match '\n': a match that starts at i ends before the next LF
MatchFrom(line, i) ==
    LET rest == SubSeq(line, i, Len(line))
        nl == IndexByte(rest, LF)
    IN  IF nl = 0 THEN rest ELSE SubSeq(rest, 1, nl - 1)

\* a variant that returns the last match of the line
FindFirst_Last(line) ==
    IF MatchStarts(line) = {} THEN <<>>
    ELSE MatchFrom(line, CHOOSE i \in MatchStarts(line) :
                            \A j \in MatchStarts(line) : j <= i)

\* regExpPatttern.FindAllString(line, -1)[0], <<>> when len(result) = 0
FindFirst(line) ==
    IF MatchStarts(line) = {} THEN <<>>
    ELSE MatchFrom(line, IndexByte(line, 75))

(***************************************************************************)
(* bytes.Buffer: buf is a slice of an array, off the read position.  arr   *)
(* holds the part of the array that was ever written; the rest is the      *)
(* zero bytes make() left there.                                           *)
(***************************************************************************)
BufAt(b, i) == IF i <= Len(b.arr) THEN b.arr[i] ELSE 0

\* b.buf[from:to] as a sequence (0-based from, exclusive to, as in Go)
BufSlice(b, from, to) == [i \in 1..(to - from) |-> BufAt(b, from + i)]

\* Buffer.Len()
BufLen(b) == b.len - b.off

\* Buffer.String(): the unread bytes, nothing consumed
BufString(b) == BufSlice(b, b.off, b.len)

\* Buffer.Reset()
BufReset(b) == [b EXCEPT !.len = 0, !.off = 0]

\* copy(b.buf[m:], p)
BufCopy(b, m, p) ==
    LET hi == IF Len(b.arr) > m + Len(p) THEN Len(b.arr) ELSE m + Len(p)
    IN  [b EXCEPT !.arr = [i \in 1..hi |->
                             IF i > m /\ i <= m + Len(p) THEN p[i - m]
                             ELSE BufAt(b, i)]]

(***************************************************************************)
(* State.                                                                  *)
(***************************************************************************)
VARIABLES
    \* fields of SerialPort
    portIsOpen, port, name, baud, readTimeout, eol, rxChar, waitline, buff,
    \* the platform: Open() calls that succeeded, the handles that are open,
    \* what the device has still to send, the rxChar channels that are closed,
    \* the handles whose Read fails for good (the device is gone)
    nopen, tpOpen, dev, chClosed, tpErr,
    \* the goroutines: readSerialPort and processSerialPort of each Open(),
    \* the search task of each WaitForRegexTimeout(), a ReadLine() in progress
    rd, pr, st, rl,
    \* the caller's goroutine: where it is, the task it waits for, and what
    \* the step just taken returned to it (NoRet: no call returned)
    \* the step just taken returned to it (NoRet: no call returned), the calls
    \* it has made
    upc, ucur, ret, ncalls,
    \* history: the bytes readSerialPort took from the Transport since the
    \* last Open(), the bytes Read() and ReadLine() handed out since then, in
    \* the order of the calls' returns, and why the program panicked
    taken, out, crashed

sessionVars == <<portIsOpen, port, name, baud, readTimeout, eol, rxChar, waitline>>
envVars == <<nopen, tpOpen, dev, chClosed, tpErr>>
userVars == <<upc, ucur, ncalls>>
histVars == <<taken, out>>
vars == <<sessionVars, buff, envVars, rd, pr, st, rl, userVars, ret, histVars, crashed>>

\* what a call returned
Ret(op, err, val, path, raw, n) ==
    [op |-> op, err |-> err, val |-> val, path |-> path, raw |-> raw, n |-> n]

NoRet == Ret("", "nil", <<>>, "", <<>>, 0)

\* sawErr: a Read of this readSerialPort has returned the error of a handle
\* that fails for good
rdNone == [pc |-> "none", port |-> 0, chunk |-> <<>>, i |-> 0, m |-> 0, ch |-> 0,
           sawErr |-> FALSE]
prNone == [pc |-> "none", ch |-> 0, sig |-> 0, screenBuff |-> <<>>, last |-> 0]
\* timer: the channel of time.After(timeout) holds its value; firedFirst: it
\* got the value while c1 was still empty
stNone == [pc |-> "none", timeExpired |-> FALSE, c1 |-> <<>>, line |-> <<>>, path |-> "",
           timer |-> FALSE, firedFirst |-> FALSE]
rlNone == [pc |-> "idle", wl |-> 0, end |-> 0, line |-> <<>>, err |-> "nil"]

\* New(): eol is EOL_DEFAULT, buff is a Buffer whose contents are the 1024
\* zero bytes of make([]uint8, 1024); every other field is the zero value
New ==
    /\ portIsOpen = FALSE
    /\ port = 0
    /\ name = ""
    /\ baud = 0
    /\ readTimeout = "0"
    /\ eol = EOL_DEFAULT
    /\ rxChar = 0
    /\ waitline = 0
    /\ buff = [arr |-> <<>>, len |-> NewBuffLen, off |-> 0]

Init ==
    /\ New
    /\ nopen = 0
    /\ tpOpen = {}
    /\ dev = <<>>
    /\ chClosed = {}
    /\ tpErr = {}
    /\ rd = [g \in Gens |-> rdNone]
    /\ pr = [g \in Gens |-> prNone]
    /\ st = [t \in Tasks |-> stNone]
    /\ rl = [c \in Callers |-> rlNone]
    /\ upc = "idle"
    /\ ucur = 0
    /\ ret = NoRet
    /\ taken = <<>>
    /\ out = <<>>
    /\ ncalls = 0
    /\ crashed = ""

Running == crashed = ""
Idle == Running /\ upc = "idle"
\* the caller makes its next API call
Call == Idle /\ ncalls < MaxCalls /\ ncalls' = ncalls + 1

\* Available(): sp.buff.Len()
Available == BufLen(buff)

(***************************************************************************)
(* Open(name, baud, timeout...)                                            *)
(***************************************************************************)
\* a variant that stores the new read timeout before it looks at portIsOpen
Open_StoresFirst(a) ==
    /\ Call
    /\ portIsOpen
    /\ readTimeout' = (IF a.timeout = "default" THEN "1s" ELSE a.timeout)
    /\ ret' = Ret("Open", "AlreadyOpen", <<>>, "", <<>>, 0)
    /\ UNCHANGED <<portIsOpen, port, name, baud, eol, rxChar, waitline, buff,
                   envVars, rd, pr, st, rl, upc, ucur, histVars, crashed>>

\* lines 59-61: the port is open already
Open_AlreadyOpen(a) ==
    /\ Call
    /\ portIsOpen
    /\ ret' = Ret("Open", "AlreadyOpen", <<>>, "", <<>>, 0)
    /\ UNCHANGED <<sessionVars, buff, envVars, rd, pr, st, rl, upc, ucur,
                   histVars, crashed>>

\* a variant that marks the session open before openPort has succeeded
Open_Failed_MarksOpen(a) ==
    /\ Call
    /\ ~portIsOpen
    /\ readTimeout' = (IF a.timeout = "default" THEN "1s" ELSE a.timeout)
    /\ portIsOpen' = TRUE
    /\ ret' = Ret("Open", "OpenFailed", <<>>, "", <<>>, 0)
    /\ UNCHANGED <<port, name, baud, eol, rxChar, waitline, buff,
                   envVars, rd, pr, st, rl, upc, ucur, histVars, crashed>>

\* lines 63-71: openPort fails
Open_Failed(a) ==
    /\ Call
    /\ ~portIsOpen
    /\ readTimeout' = (IF a.timeout = "default" THEN "1s" ELSE a.timeout)
    /\ ret' = Ret("Open", "OpenFailed", <<>>, "", <<>>, 0)
    /\ UNCHANGED <<portIsOpen, port, name, baud, eol, rxChar, waitline, buff,
                   envVars, rd, pr, st, rl, upc, ucur, histVars, crashed>>

\* lines 63-76: openPort succeeds; name, baud, port and portIsOpen are stored.
\* The device of the new handle will send one of StreamsOf(nopen + 1).
Open_Acquire(a, stream) ==
    /\ Call
    /\ ~portIsOpen
    /\ nopen < MaxOpens
    /\ readTimeout' = (IF a.timeout = "default" THEN "1s" ELSE a.timeout)
    /\ name' = a.name
    /\ baud' = a.baud
    /\ nopen' = nopen + 1
    /\ port' = nopen + 1
    /\ tpOpen' = tpOpen \cup {nopen + 1}
    /\ dev' = stream
    /\ portIsOpen' = TRUE
    /\ upc' = "open2"
    /\ taken' = <<>>
    /\ out' = <<>>
    /\ ret' = NoRet
    /\ UNCHANGED <<eol, rxChar, waitline, buff, chClosed, tpErr, rd, pr, st, rl,
                   ucur, crashed>>

\* lines 77-86: the buffer is reset, the channels are made, the goroutines start
Open_Start ==
    /\ Running
    /\ upc = "open2"
    /\ buff' = BufReset(buff)
    /\ rxChar' = port
    /\ waitline' = port
    /\ rd' = [rd EXCEPT ![port] = [rdNone EXCEPT !.pc = "loop"]]
    /\ pr' = [pr EXCEPT ![port] = [prNone EXCEPT !.pc = "loop"]]
    /\ upc' = "idle"
    /\ ret' = Ret("Open", "nil", <<>>, "", <<>>, port)
    /\ UNCHANGED <<portIsOpen, port, name, baud, readTimeout, eol, envVars,
                   st, rl, ucur, ncalls, histVars, crashed>>

(***************************************************************************)
(* Close()                                                                 *)
(***************************************************************************)
\* lines 91, 97: the port is not open: return nil
Close_NotOpen ==
    /\ Call
    /\ ~portIsOpen
    /\ ret' = Ret("Close", "nil", <<>>, "", <<>>, 0)
    /\ UNCHANGED <<sessionVars, buff, envVars, rd, pr, st, rl, upc, ucur,
                   histVars, crashed>>

\* lines 91-92: sp.portIsOpen = false
Close_Flag ==
    /\ Call
    /\ portIsOpen
    /\ portIsOpen' = FALSE
    /\ upc' = "close_chan"
    /\ ret' = NoRet
    /\ UNCHANGED <<port, name, baud, readTimeout, eol, rxChar, waitline, buff,
                   envVars, rd, pr, st, rl, ucur, histVars, crashed>>

\* line 93: close(sp.rxChar)
Close_Chan ==
    /\ Running
    /\ upc = "close_chan"
    /\ chClosed' = chClosed \cup {rxChar}
    /\ upc' = "close_port"
    /\ ret' = NoRet
    /\ UNCHANGED <<sessionVars, buff, nopen, tpOpen, dev, tpErr, rd, pr, st, rl,
                   ucur, ncalls, histVars, crashed>>

\* line 95: return sp.port.Close(); the handle is released whatever it returns
Close_Port(err) ==
    /\ Running
    /\ upc = "close_port"
    /\ tpOpen' = tpOpen \ {port}
    /\ upc' = "idle"
    /\ ret' = Ret("Close", err, <<>>, "", <<>>, port)
    /\ UNCHANGED <<sessionVars, buff, nopen, dev, chClosed, tpErr, rd, pr, st, rl,
                   ucur, ncalls, histVars, crashed>>

(***************************************************************************)
(* Write(data), Print(str), Println(str), Printf(format, args...), EOL(c)   *)
(***************************************************************************)
\* lines 101-113: forwards to port.Write, which reports n and an error
Write(data, err) ==
    /\ Call
    /\ ret' = IF portIsOpen
              THEN Ret("Write", err, data, "", <<>>,
                       IF err = "nil" THEN Len(data) ELSE 0)
              ELSE Ret("Write", "NotOpen", <<>>, "", <<>>, 0)
    /\ UNCHANGED <<sessionVars, buff, envVars, rd, pr, st, rl, upc, ucur,
                   histVars, crashed>>

\* Print(str) without the test of sp.portIsOpen
SerialPrint_Unguarded(str, err) ==
    /\ Call
    /\ ret' = Ret("Print", err, str, "", <<>>, 0)
    /\ UNCHANGED <<sessionVars, buff, envVars, rd, pr, st, rl, upc, ucur,
                   histVars, crashed>>

\* lines 116-128: Print(str) forwards []byte(str) to port.Write and returns
\* its error
SerialPrint(str, err) ==
    /\ Call
    /\ ret' = IF portIsOpen
              THEN Ret("Print", err, str, "", <<>>, 0)
              ELSE Ret("Print", "NotOpen", <<>>, "", <<>>, 0)
    /\ UNCHANGED <<sessionVars, buff, envVars, rd, pr, st, rl, upc, ucur,
                   histVars, crashed>>

\* lines 132-134: return sp.Print(str + "\r\n")
Println(str, err) == SerialPrint(str \o <<CR, LF>>, err)

\* fmt.Sprintf for the formats of the model: "%d" becomes the decimal digit
\* of the next argument (arguments are 0..9), any other byte is copied
RECURSIVE Sprintf(_, _)
Sprintf(format, args) ==
    IF format = <<>> THEN <<>>
    ELSE IF Len(format) >= 2 /\ format[1] = 37 /\ format[2] = 100 /\ args # <<>>
         THEN <<48 + args[1]>> \o Sprintf(SubSeq(format, 3, Len(format)), Tail(args))
         ELSE <<format[1]>> \o Sprintf(Tail(format), args)

\* lines 137-143: str := format, or fmt.Sprintf(format, args...) when there
\* are arguments; return sp.Print(str)
Printf(format, args, err) ==
    SerialPrint(IF Len(args) > 0 THEN Sprintf(format, args) ELSE format, err)

\* lines 270-272: sp.eol = c
EOL(c) ==
    /\ Call
    /\ eol' = c
    /\ ret' = Ret("EOL", "nil", <<c>>, "", <<>>, 0)
    /\ UNCHANGED <<portIsOpen, port, name, baud, readTimeout, rxChar, waitline,
                   buff, envVars, rd, pr, st, rl, upc, ucur, histVars, crashed>>

(***************************************************************************)
(* Read(): sp.buff.ReadByte().  ReadByte tests empty() and then either     *)
(* resets the buffer or takes b.buf[b.off]: two steps, the buffer is not   *)
(* locked in between.                                                      *)
(***************************************************************************)
\* lines 184-188, and ReadByte's test `if b.empty()`
Read_Enter ==
    /\ Call
    /\ IF ~portIsOpen
       THEN /\ ret' = Ret("Read", "NotOpen", <<>>, "", <<>>, 0)
            /\ upc' = upc
       ELSE /\ upc' = (IF buff.len <= buff.off THEN "read_reset" ELSE "read_pop")
            /\ ret' = NoRet
    /\ UNCHANGED <<sessionVars, buff, envVars, rd, pr, st, rl, ucur, histVars,
                   crashed>>

\* ReadByte on an empty buffer: b.Reset(); return 0, io.EOF
Read_Empty ==
    /\ Running
    /\ upc = "read_reset"
    /\ buff' = BufReset(buff)
    /\ upc' = "idle"
    /\ ret' = Ret("Read", "EOF", <<>>, "", <<>>, 0)
    /\ UNCHANGED <<sessionVars, envVars, rd, pr, st, rl, ucur, ncalls, histVars, crashed>>

\* ReadByte otherwise: c := b.buf[b.off]; b.off++; an index past len(b.buf)
\* panics
Read_Pop ==
    /\ Running
    /\ upc = "read_pop"
    /\ IF buff.off >= buff.len
       THEN /\ crashed' = "index out of range"
            /\ ret' = NoRet
            /\ UNCHANGED <<buff, userVars, histVars>>
       ELSE /\ buff' = [buff EXCEPT !.off = buff.off + 1]
            /\ upc' = "idle"
            /\ ret' = Ret("Read", "nil", <<BufAt(buff, buff.off + 1)>>, "",
                          <<BufAt(buff, buff.off + 1)>>, 0)
            /\ out' = Append(out, BufAt(buff, buff.off + 1))
            /\ UNCHANGED <<ucur, ncalls, taken, crashed>>
    /\ UNCHANGED <<sessionVars, envVars, rd, pr, st, rl>>

(***************************************************************************)
(* ReadLine(), run by the caller's goroutine (c = 0) or by a search task.  *)
(***************************************************************************)
\* what the search loop of WaitForRegexTimeout does with a ReadLine() result
\* (lines 233-245): an error or a line without a match: next iteration; a
\* match: c1 <- result[0]; break.  c1 has capacity 1 and gets one send.
SearchStep(s, val, err, path) ==
    IF err = "nil" /\ FindFirst(val) # <<>>
    THEN [s EXCEPT !.pc = "done", !.c1 = <<FindFirst(val)>>,
                   !.line = val, !.path = path]
    ELSE [s EXCEPT !.pc = "loop"]

\* ReadLine() returns (val, err) to c.  raw are the bytes of the buffer that
\* val was made of; out records them, except what a search task is shown on
\* the timeout path.
ReadLine_Return(c, val, err, path, raw) ==
    IF c = 0
    THEN /\ upc' = "idle"
         /\ ret' = Ret("ReadLine", err, val, path, raw, 0)
         /\ out' = (IF err = "nil" THEN out \o raw ELSE out)
         /\ UNCHANGED <<st, ucur, ncalls, taken>>
    ELSE /\ st' = [st EXCEPT ![c] = SearchStep(st[c], val, err, path)]
         /\ out' = (IF err = "nil" /\ path = "signal" THEN out \o raw ELSE out)
         /\ ret' = NoRet
         /\ UNCHANGED <<userVars, taken>>

\* line 198 and the entry of the select: sp.waitline is evaluated, the timer
\* is armed
ReadLine_Enter ==
    /\ Call
    /\ IF ~portIsOpen
       THEN /\ ret' = Ret("ReadLine", "NotOpen", <<>>, "", <<>>, 0)
            /\ UNCHANGED <<upc, rl>>
       ELSE /\ upc' = "readline"
            /\ rl' = [rl EXCEPT ![0] = [rlNone EXCEPT !.pc = "select", !.wl = waitline]]
            /\ ret' = NoRet
    /\ UNCHANGED <<sessionVars, buff, envVars, rd, pr, st, ucur, histVars, crashed>>

\* lines 208-209: the timer fires: return sp.buff.String(), nil.  Nothing is
\* consumed.  b.buf[b.off:] with off past len(b.buf) panics.
ReadLine_Timeout(c) ==
    /\ Running
    /\ rl[c].pc = "select"
    /\ IF buff.off > buff.len
       THEN /\ crashed' = "slice bounds out of range"
            /\ ret' = NoRet
            /\ UNCHANGED <<rl, st, userVars, histVars>>
       ELSE /\ rl' = [rl EXCEPT ![c] = rlNone]
            /\ ReadLine_Return(c, BufString(buff), "nil", "timeout", BufString(buff))
            /\ UNCHANGED crashed
    /\ UNCHANGED <<sessionVars, buff, envVars, rd, pr>>

\* ReadString(delim) -> readSlice: IndexByte in b.buf[b.off:], end, the slice
\* b.buf[b.off:end]; io.EOF without a delimiter
ReadString_Scan(r, delim) ==
    LET i == IndexByte(BufString(buff), delim)
        end == IF i = 0 THEN buff.len ELSE buff.off + i
    IN  [r EXCEPT !.pc = "commit", !.end = end,
                  !.line = BufSlice(buff, buff.off, end),
                  !.err = IF i = 0 THEN "EOF" ELSE "nil"]

\* line 201, first half: sp.buff.ReadString(sp.eol) up to the store of b.off
ReadLine_Scan(c) ==
    /\ Running
    /\ rl[c].pc = "scan"
    /\ IF buff.off > buff.len
       THEN /\ crashed' = "slice bounds out of range"
            /\ rl' = rl
       ELSE /\ rl' = [rl EXCEPT ![c] = ReadString_Scan(@, eol)]
            /\ crashed' = crashed
    /\ ret' = NoRet
    /\ UNCHANGED <<sessionVars, buff, envVars, rd, pr, st, userVars, histVars>>

\* line 201, second half, and lines 202-207: b.off = end; an error returns
\* ("", err), a line returns removeEOL(line)
ReadLine_Commit(c) ==
    /\ Running
    /\ rl[c].pc = "commit"
    /\ buff' = [buff EXCEPT !.off = rl[c].end]
    /\ rl' = [rl EXCEPT ![c] = rlNone]
    /\ IF rl[c].err # "nil"
       THEN ReadLine_Return(c, <<>>, rl[c].err, "signal", rl[c].line)
       ELSE ReadLine_Return(c, removeEOL(rl[c].line), "nil", "signal", rl[c].line)
    /\ UNCHANGED <<sessionVars, envVars, rd, pr, crashed>>

(***************************************************************************)
(* WaitForRegexTimeout(exp, timeout)                                       *)
(***************************************************************************)
\* lines 220, 224: regexp.MustCompile panics on a pattern that does not compile
WaitForRegexTimeout_BadPattern ==
    /\ Call
    /\ portIsOpen
    /\ crashed' = "regexp: Compile: missing closing )"
    /\ ret' = NoRet
    /\ UNCHANGED <<sessionVars, buff, envVars, rd, pr, st, rl, upc, ucur, histVars>>

\* lines 220, 259: the port is not open
WaitForRegexTimeout_NotOpen ==
    /\ Call
    /\ ~portIsOpen
    /\ ret' = Ret("WaitForRegexTimeout", "NotOpen", <<>>, "", <<>>, 0)
    /\ UNCHANGED <<sessionVars, buff, envVars, rd, pr, st, rl, upc, ucur,
                   histVars, crashed>>

\* lines 222-248: timeExpired := false, c1 is made, the search task starts, the
\* caller enters the select and the timer is armed
WaitForRegexTimeout_Spawn ==
    /\ Call
    /\ portIsOpen
    /\ \E t \in Tasks :
        /\ st[t].pc = "none"
        /\ \A u \in Tasks : u < t => st[u].pc # "none"
        /\ st' = [st EXCEPT ![t] = [stNone EXCEPT !.pc = "loop"]]
        /\ ucur' = t
    /\ upc' = "wait"
    /\ ret' = NoRet
    /\ UNCHANGED <<sessionVars, buff, envVars, rd, pr, rl, histVars, crashed>>

WaitForRegexTimeout(exp) ==
    \/ WaitForRegexTimeout_NotOpen
    \/ (Compiles(exp) /\ WaitForRegexTimeout_Spawn)
    \/ (~Compiles(exp) /\ WaitForRegexTimeout_BadPattern)

\* lines 248-252: the select takes the case of c1 (with both channels ready
\* it takes either case): data := <-c1; return data, nil
WaitForRegexTimeout_Match ==
    /\ Running
    /\ upc = "wait"
    /\ st[ucur].c1 # <<>>
    /\ ret' = Ret("WaitForRegexTimeout", "nil", st[ucur].c1[1], st[ucur].path,
                  st[ucur].line, ucur)
    /\ st' = [st EXCEPT ![ucur] = [stNone EXCEPT !.pc = st[ucur].pc]]
    /\ upc' = "idle"
    /\ ucur' = 0
    /\ UNCHANGED <<sessionVars, buff, envVars, rd, pr, rl, ncalls, histVars, crashed>>

\* line 253: the timer of time.After(timeout) fires: its channel can be
\* received from
Timer_Fires ==
    /\ Running
    /\ upc = "wait"
    /\ ~st[ucur].timer
    /\ st' = [st EXCEPT ![ucur].timer = TRUE, ![ucur].firedFirst = (st[ucur].c1 = <<>>)]
    /\ ret' = NoRet
    /\ UNCHANGED <<sessionVars, buff, envVars, rd, pr, rl, userVars, histVars, crashed>>

\* the timer's case without `timeExpired = true`
WaitForRegexTimeout_Expire_NoFlag ==
    /\ Running
    /\ upc = "wait"
    /\ st[ucur].timer
    /\ st' = [st EXCEPT ![ucur].timer = FALSE, ![ucur].firedFirst = FALSE]
    /\ ret' = Ret("WaitForRegexTimeout", "Timeout", <<>>, "", <<>>, ucur)
    /\ upc' = "idle"
    /\ ucur' = 0
    /\ UNCHANGED <<sessionVars, buff, envVars, rd, pr, rl, ncalls, histVars, crashed>>

\* lines 253-256: the select takes the timer's case: timeExpired = true;
\* return Timeout
WaitForRegexTimeout_Expire ==
    /\ Running
    /\ upc = "wait"
    /\ st[ucur].timer
    /\ st' = [st EXCEPT ![ucur].timeExpired = TRUE, ![ucur].timer = FALSE,
                        ![ucur].firedFirst = FALSE]
    /\ ret' = Ret("WaitForRegexTimeout", "Timeout", <<>>, "", <<>>, ucur)
    /\ upc' = "idle"
    /\ ucur' = 0
    /\ UNCHANGED <<sessionVars, buff, envVars, rd, pr, rl, ncalls, histVars, crashed>>

\* lines 231-233, 198: the loop test `for !timeExpired`, then ReadLine() up to
\* its select.  With the port closed ReadLine() returns an error at once and
\* the loop comes back here: no state changes.
Search_Loop(t) ==
    /\ Running
    /\ st[t].pc = "loop"
    /\ IF st[t].timeExpired
       THEN /\ st' = [st EXCEPT ![t].pc = "done"]
            /\ rl' = rl
       ELSE /\ portIsOpen
            /\ st' = [st EXCEPT ![t].pc = "readline"]
            /\ rl' = [rl EXCEPT ![t] = [rlNone EXCEPT !.pc = "select", !.wl = waitline]]
    /\ ret' = NoRet
    /\ UNCHANGED <<sessionVars, buff, envVars, rd, pr, userVars, histVars, crashed>>

(***************************************************************************)
(* The Transport.                                                          *)
(***************************************************************************)
\* the device of the open handle goes away after it has sent its stream:
\* every later Read on the handle returns (0, err)
Transport_Fails ==
    /\ Running
    /\ nopen \in tpOpen \ tpErr
    /\ dev = <<>>
    /\ tpErr' = tpErr \cup {nopen}
    /\ ret' = NoRet
    /\ UNCHANGED <<sessionVars, buff, nopen, tpOpen, dev, chClosed, rd, pr, st,
                   rl, userVars, histVars, crashed>>

(***************************************************************************)
(* readSerialPort(), the goroutine of Open() number g                      *)
(***************************************************************************)
\* line 280: `for sp.portIsOpen`; line 281: sp.port is evaluated, Read called
readSerialPort_Loop(g) ==
    /\ Running
    /\ rd[g].pc = "loop"
    /\ rd' = [rd EXCEPT ![g] = IF portIsOpen
                               THEN [@ EXCEPT !.pc = "read", !.port = port]
                               ELSE [rdNone EXCEPT !.pc = "done"]]
    /\ ret' = NoRet
    /\ UNCHANGED <<sessionVars, buff, envVars, pr, st, rl, userVars, histVars, crashed>>

\* lines 281-283: Read returns n bytes (0 on a timeout, on an error, on a
\* closed handle; `n, _ :=` drops the error), and Write makes room for them:
\* b.buf = b.buf[:l+n] (tryGrowByReslice; the array has room)
readSerialPort_Read(g, n) ==
    /\ Running
    /\ rd[g].pc = "read"
    /\ n <= (IF rd[g].port \in tpOpen /\ rd[g].port = nopen THEN Len(dev) ELSE 0)
    /\ IF n = 0
       THEN /\ rd' = [rd EXCEPT ![g] =
                           [rdNone EXCEPT !.pc = "loop",
                                          !.sawErr = rd[g].sawErr
                                                     \/ rd[g].port \in tpErr]]
            /\ UNCHANGED <<buff, dev, taken>>
       ELSE /\ rd' = [rd EXCEPT ![g] = [@ EXCEPT !.pc = "copy", !.m = buff.len,
                                          !.chunk = SubSeq(dev, 1, n)]]
            /\ buff' = [buff EXCEPT !.len = buff.len + n]
            /\ dev' = SubSeq(dev, n + 1, Len(dev))
            /\ taken' = taken \o SubSeq(dev, 1, n)
    /\ ret' = NoRet
    /\ UNCHANGED <<sessionVars, nopen, tpOpen, chClosed, tpErr, pr, st, rl, userVars,
                   out, crashed>>

\* line 283, the rest of Write: copy(b.buf[m:], p)
readSerialPort_Copy(g) ==
    /\ Running
    /\ rd[g].pc = "copy"
    /\ buff' = BufCopy(buff, rd[g].m, rd[g].chunk)
    /\ rd' = [rd EXCEPT ![g] = [@ EXCEPT !.pc = "check", !.i = 1, !.m = 0]]
    /\ ret' = NoRet
    /\ UNCHANGED <<sessionVars, envVars, pr, st, rl, userVars, histVars, crashed>>

\* what follows byte i of the chunk
rdAfterByte(r) ==
    IF r.i < Len(r.chunk)
    THEN [r EXCEPT !.pc = "check", !.i = r.i + 1, !.ch = 0]
    ELSE [rdNone EXCEPT !.pc = "loop"]

\* lines 285-287: `if sp.portIsOpen`, then sp.rxChar is evaluated for the send
readSerialPort_Check(g) ==
    /\ Running
    /\ rd[g].pc = "check"
    /\ rd' = [rd EXCEPT ![g] = IF portIsOpen
                               THEN [@ EXCEPT !.pc = "send", !.ch = rxChar]
                               ELSE rdAfterByte(@)]
    /\ ret' = NoRet
    /\ UNCHANGED <<sessionVars, buff, envVars, pr, st, rl, userVars, histVars, crashed>>

\* line 287 on a closed channel: panic: send on closed channel
readSerialPort_SendClosed(g) ==
    /\ Running
    /\ rd[g].pc = "send"
    /\ rd[g].ch \in chClosed
    /\ crashed' = "send on closed channel"
    /\ ret' = NoRet
    /\ UNCHANGED <<sessionVars, buff, envVars, rd, pr, st, rl, userVars, histVars>>

(***************************************************************************)
(* processSerialPort(), the goroutine of Open() number g                   *)
(***************************************************************************)
\* lines 298-299: `if sp.portIsOpen`, then sp.rxChar is evaluated for the
\* receive
processSerialPort_Loop(g) ==
    /\ Running
    /\ pr[g].pc = "loop"
    /\ pr' = [pr EXCEPT ![g] = IF portIsOpen
                               THEN [@ EXCEPT !.pc = "recv", !.ch = rxChar]
                               ELSE [prNone EXCEPT !.pc = "done"]]
    /\ ret' = NoRet
    /\ UNCHANGED <<sessionVars, buff, envVars, rd, st, rl, userVars, histVars, crashed>>

\* lines 301-310: the switch on the byte received: the EOL byte makes the
\* task send on sp.waitline (evaluated now), any other byte is appended
prAfterByte(p, b) ==
    IF b = eol
    THEN [p EXCEPT !.pc = "signal", !.ch = 0, !.sig = waitline, !.last = b]
    ELSE [p EXCEPT !.pc = "loop", !.ch = 0,
                   !.screenBuff = Append(p.screenBuff, b)]

\* line 287 and line 299: the unbuffered channel hands byte i of reader g to
\* a processSerialPort that receives on the same channel
rxChar_Transfer(g, h) ==
    /\ Running
    /\ rd[g].pc = "send"
    /\ rd[g].ch \notin chClosed
    /\ pr[h].pc = "recv"
    /\ pr[h].ch = rd[g].ch
    /\ rd' = [rd EXCEPT ![g] = rdAfterByte(@)]
    /\ pr' = [pr EXCEPT ![h] = prAfterByte(@, rd[g].chunk[rd[g].i])]
    /\ ret' = NoRet
    /\ UNCHANGED <<sessionVars, buff, envVars, st, rl, userVars, histVars, crashed>>

\* line 299 on a closed channel: the receive returns the zero byte at once
processSerialPort_RecvClosed(h) ==
    /\ Running
    /\ pr[h].pc = "recv"
    /\ pr[h].ch \in chClosed
    /\ Len(pr[h].screenBuff) < MaxLine
    /\ pr' = [pr EXCEPT ![h] = prAfterByte(@, 0)]
    /\ ret' = NoRet
    /\ UNCHANGED <<sessionVars, buff, envVars, rd, st, rl, userVars, histVars, crashed>>

\* lines 305-306 and line 200: the unbuffered sp.waitline hands the signal of
\* processSerialPort h to a ReadLine() that selects on the same channel;
\* screenBuff is emptied
waitline_Transfer(h, c) ==
    /\ Running
    /\ pr[h].pc = "signal"
    /\ rl[c].pc = "select"
    /\ rl[c].wl = pr[h].sig
    /\ pr' = [pr EXCEPT ![h] = [prNone EXCEPT !.pc = "loop"]]
    /\ rl' = [rl EXCEPT ![c].pc = "scan"]
    /\ ret' = NoRet
    /\ UNCHANGED <<sessionVars, buff, envVars, rd, st, userVars, histVars, crashed>>

(***************************************************************************)
(* The program.                                                            *)
(***************************************************************************)
Open(a) ==
    \/ Open_AlreadyOpen(a)
    \/ Open_Failed(a)
    \/ \E stream \in StreamsOf(nopen + 1) : Open_Acquire(a, stream)

Close ==
    \/ Close_NotOpen
    \/ Close_Flag

Next ==
    \/ \E a \in OpenArgs : Open(a)
    \/ Open_Start
    \/ Close
    \/ Close_Chan
    \/ \E err \in {"nil", "CloseErr"} : Close_Port(err)
    \/ \E err \in {"nil", "WriteErr"} : Write(<<65, 84>>, err)
    \/ \E err \in {"nil", "WriteErr"} : SerialPrint(<<65, 84>>, err)
    \/ Println(<<65, 84>>, "nil")
    \/ \E args \in {<<>>, <<7>>} : Printf(<<65, 37, 100>>, args, "nil")
    \/ \E c \in EolBytes : EOL(c)
    \/ Read_Enter
    \/ Read_Empty
    \/ Read_Pop
    \/ ReadLine_Enter
    \/ \E c \in Callers : ReadLine_Timeout(c)
    \/ \E c \in Callers : ReadLine_Scan(c)
    \/ \E c \in Callers : ReadLine_Commit(c)
    \/ \E exp \in Patterns : WaitForRegexTimeout(exp)
    \/ WaitForRegexTimeout_Match
    \/ Timer_Fires
    \/ WaitForRegexTimeout_Expire
    \/ \E t \in Tasks : Search_Loop(t)
    \/ Transport_Fails
    \/ \E g \in Gens : readSerialPort_Loop(g)
    \/ \E g \in Gens, n \in 0..MaxChunk : readSerialPort_Read(g, n)
    \/ \E g \in Gens : readSerialPort_Copy(g)
    \/ \E g \in Gens : readSerialPort_Check(g)
    \/ \E g \in Gens : readSerialPort_SendClosed(g)
    \/ \E h \in Gens : processSerialPort_Loop(h)
    \/ \E g \in Gens, h \in Gens : rxChar_Transfer(g, h)
    \/ \E h \in Gens : processSerialPort_RecvClosed(h)
    \/ \E h \in Gens, c \in Callers : waitline_Transfer(h, c)

Spec == Init /\ [][Next]_vars

\* fair scheduling: a goroutine that can take its next step takes it, a
\* channel operation whose two sides are ready happens, a timer that is armed
\* fires, a call in progress goes on, and a Read on a device with bytes to
\* send gets some of them sooner or later.  The caller is free to make no
\* further call.
Fairness ==
    /\ WF_vars(Open_Start)
    /\ WF_vars(Close_Chan)
    /\ WF_vars(\E err \in {"nil", "CloseErr"} : Close_Port(err))
    /\ WF_vars(Read_Empty)
    /\ WF_vars(Read_Pop)
    /\ \A c \in Callers : WF_vars(ReadLine_Timeout(c))
    /\ \A c \in Callers : WF_vars(ReadLine_Scan(c))
    /\ \A c \in Callers : WF_vars(ReadLine_Commit(c))
    /\ WF_vars(Timer_Fires)
    /\ WF_vars(WaitForRegexTimeout_Match \/ WaitForRegexTimeout_Expire)
    /\ \A t \in Tasks : WF_vars(Search_Loop(t))
    /\ \A g \in Gens : WF_vars(readSerialPort_Loop(g))
    /\ \A g \in Gens : WF_vars(\E n \in 0..MaxChunk : readSerialPort_Read(g, n))
    /\ \A g \in Gens : SF_vars(\E n \in 1..MaxChunk : readSerialPort_Read(g, n))
    /\ \A g \in Gens : WF_vars(readSerialPort_Copy(g))
    /\ \A g \in Gens : WF_vars(readSerialPort_Check(g))
    /\ \A g \in Gens : WF_vars(readSerialPort_SendClosed(g))
    /\ \A g \in Gens : WF_vars(\E h \in Gens : rxChar_Transfer(g, h))
    /\ \A h \in Gens : WF_vars(processSerialPort_Loop(h))
    /\ \A h \in Gens : WF_vars(processSerialPort_RecvClosed(h))
    /\ \A h \in Gens : WF_vars(\E c \in Callers : waitline_Transfer(h, c))

FairSpec == Spec /\ Fairness

\* A caller that reads lines only.  The state after New() and a first
\* successful Open("COM1", 9600) (lines 42-87) on the device that sends
\* "R\nK\n"; the calls are counted from here.
InitOpened ==
    /\ portIsOpen = TRUE
    /\ port = 1
    /\ name = "COM1"
    /\ baud = 9600
    /\ readTimeout = "1s"
    /\ eol = EOL_DEFAULT
    /\ rxChar = 1
    /\ waitline = 1
    /\ buff = BufReset([arr |-> <<>>, len |-> NewBuffLen, off |-> 0])
    /\ nopen = 1
    /\ tpOpen = {1}
    /\ dev = <<82, 10, 75, 10>>
    /\ chClosed = {}
    /\ tpErr = {}
    /\ rd = [g \in Gens |-> IF g = 1 THEN [rdNone EXCEPT !.pc = "loop"] ELSE rdNone]
    /\ pr = [g \in Gens |-> IF g = 1 THEN [prNone EXCEPT !.pc = "loop"] ELSE prNone]
    /\ st = [t \in Tasks |-> stNone]
    /\ rl = [c \in Callers |-> rlNone]
    /\ upc = "idle"
    /\ ucur = 0
    /\ ret = Ret("Open", "nil", <<>>, "", <<>>, 1)
    /\ taken = <<>>
    /\ out = <<>>
    /\ ncalls = 0
    /\ crashed = ""

\* the steps of the program when the caller uses Open(), Close() and
\* ReadLine() only: no Read(), no EOL(), no Write(), no search task
NextLinesOnly ==
    \/ \E a \in OpenArgs : Open(a)
    \/ Open_Start
    \/ Close
    \/ Close_Chan
    \/ \E err \in {"nil", "CloseErr"} : Close_Port(err)
    \/ ReadLine_Enter
    \/ ReadLine_Timeout(0)
    \/ ReadLine_Scan(0)
    \/ ReadLine_Commit(0)
    \/ \E g \in Gens : readSerialPort_Loop(g)
    \/ \E g \in Gens, n \in 0..MaxChunk : readSerialPort_Read(g, n)
    \/ \E g \in Gens : readSerialPort_Copy(g)
    \/ \E g \in Gens : readSerialPort_Check(g)
    \/ \E g \in Gens : readSerialPort_SendClosed(g)
    \/ \E h \in Gens : processSerialPort_Loop(h)
    \/ \E g \in Gens, h \in Gens : rxChar_Transfer(g, h)
    \/ \E h \in Gens : processSerialPort_RecvClosed(h)
    \/ \E h \in Gens : waitline_Transfer(h, 0)

SpecLinesOnly == InitOpened /\ [][NextLinesOnly]_vars

\* the steps of the program when the caller uses WaitForRegexTimeout() and
\* Close() only
NextWaits ==
    \/ Close
    \/ Close_Chan
    \/ \E err \in {"nil", "CloseErr"} : Close_Port(err)
    \/ \E c \in Tasks : ReadLine_Timeout(c)
    \/ \E c \in Tasks : ReadLine_Scan(c)
    \/ \E c \in Tasks : ReadLine_Commit(c)
    \/ \E exp \in Patterns : WaitForRegexTimeout(exp)
    \/ WaitForRegexTimeout_Match
    \/ Timer_Fires
    \/ WaitForRegexTimeout_Expire
    \/ \E t \in Tasks : Search_Loop(t)
    \/ \E g \in Gens : readSerialPort_Loop(g)
    \/ \E g \in Gens, n \in 0..MaxChunk : readSerialPort_Read(g, n)
    \/ \E g \in Gens : readSerialPort_Copy(g)
    \/ \E g \in Gens : readSerialPort_Check(g)
    \/ \E g \in Gens : readSerialPort_SendClosed(g)
    \/ \E h \in Gens : processSerialPort_Loop(h)
    \/ \E g \in Gens, h \in Gens : rxChar_Transfer(g, h)
    \/ \E h \in Gens : processSerialPort_RecvClosed(h)
    \/ \E h \in Gens, c \in Tasks : waitline_Transfer(h, c)

\* fair scheduling of the goroutines, channels and timers that take part
FairnessWaits ==
    /\ WF_vars(Close_Chan)
    /\ WF_vars(\E err \in {"nil", "CloseErr"} : Close_Port(err))
    /\ \A c \in Tasks : WF_vars(ReadLine_Timeout(c))
    /\ \A c \in Tasks : WF_vars(ReadLine_Scan(c))
    /\ \A c \in Tasks : WF_vars(ReadLine_Commit(c))
    /\ WF_vars(Timer_Fires)
    /\ WF_vars(WaitForRegexTimeout_Match \/ WaitForRegexTimeout_Expire)
    /\ \A t \in Tasks : WF_vars(Search_Loop(t))
    /\ \A g \in Gens : WF_vars(readSerialPort_Loop(g))
    /\ \A g \in Gens : WF_vars(\E n \in 0..MaxChunk : readSerialPort_Read(g, n))
    /\ \A g \in Gens : WF_vars(readSerialPort_Copy(g))
    /\ \A g \in Gens : WF_vars(readSerialPort_Check(g))
    /\ \A g \in Gens : WF_vars(readSerialPort_SendClosed(g))
    /\ \A g \in Gens : WF_vars(\E h \in Gens : rxChar_Transfer(g, h))
    /\ \A h \in Gens : WF_vars(processSerialPort_Loop(h))
    /\ \A h \in Gens : WF_vars(processSerialPort_RecvClosed(h))
    /\ \A h \in Gens : WF_vars(\E c \in Tasks : waitline_Transfer(h, c))

SpecWaits == InitOpened /\ [][NextWaits]_vars /\ FairnessWaits

(***************************************************************************)
(* serial_applayer.go: the variant whose Close() asks readSerialPort to    *)
(* close the port (closeReqChann / closeAckChann).  Its Open(), Close(),   *)
(* readSerialPort() and processSerialPort() over the same variables;       *)
(* waitline, eol, tpErr, st, rl, ucur and out are not used by them.        *)
(***************************************************************************)
\* serial_applayer.go lines 52-56: New() sets eol only; buff is nil until Open
AppLayer_New ==
    /\ portIsOpen = FALSE
    /\ port = 0
    /\ name = ""
    /\ baud = 0
    /\ readTimeout = "0"
    /\ eol = EOL_DEFAULT
    /\ rxChar = 0
    /\ waitline = 0
    /\ buff = [arr |-> <<>>, len |-> 0, off |-> 0]

AppLayer_Init ==
    /\ AppLayer_New
    /\ nopen = 0
    /\ tpOpen = {}
    /\ dev = <<>>
    /\ chClosed = {}
    /\ tpErr = {}
    /\ rd = [g \in Gens |-> rdNone]
    /\ pr = [g \in Gens |-> prNone]
    /\ st = [t \in Tasks |-> stNone]
    /\ rl = [c \in Callers |-> rlNone]
    /\ upc = "idle"
    /\ ucur = 0
    /\ ret = NoRet
    /\ taken = <<>>
    /\ out = <<>>
    /\ ncalls = 0
    /\ crashed = ""

\* what none of the actions of this variant changes
appLayerUnused == <<eol, waitline, tpErr, st, rl, ucur, out>>

\* lines 60, 89-90: Open() on an open port
AppLayer_Open_AlreadyOpen(a) ==
    /\ Call
    /\ portIsOpen
    /\ ret' = Ret("Open", "AlreadyOpen", <<>>, "", <<>>, 0)
    /\ UNCHANGED <<sessionVars, buff, nopen, tpOpen, dev, chClosed, rd, pr, upc,
                   taken, crashed, tpErr, st, rl, ucur, out>>

\* lines 68-71: openPort fails
AppLayer_Open_Failed(a) ==
    /\ Call
    /\ ~portIsOpen
    /\ ret' = Ret("Open", "OpenFailed", <<>>, "", <<>>, 0)
    /\ UNCHANGED <<sessionVars, buff, nopen, tpOpen, dev, chClosed, rd, pr, upc,
                   taken, crashed, tpErr, st, rl, ucur, out>>

\* lines 62-86: openPort(name, baud, readTimeout) succeeds; readTimeout is 0
\* (reads block until a byte arrives) without the optional argument; the
\* fields are stored, the buffer and the four channels are made, the two
\* goroutines start
AppLayer_Open_Acquire(a, stream) ==
    /\ Call
    /\ ~portIsOpen
    /\ nopen < MaxOpens
    /\ readTimeout' = (IF a.timeout = "default" THEN "0" ELSE a.timeout)
    /\ name' = a.name
    /\ baud' = a.baud
    /\ nopen' = nopen + 1
    /\ port' = nopen + 1
    /\ tpOpen' = tpOpen \cup {nopen + 1}
    /\ dev' = stream
    /\ portIsOpen' = TRUE
    /\ buff' = [arr |-> <<>>, len |-> 0, off |-> 0]
    /\ rxChar' = nopen + 1
    /\ rd' = [rd EXCEPT ![nopen + 1] = [rdNone EXCEPT !.pc = "loop"]]
    /\ pr' = [pr EXCEPT ![nopen + 1] = [prNone EXCEPT !.pc = "loop"]]
    /\ taken' = <<>>
    /\ ret' = Ret("Open", "nil", <<>>, "", <<>>, nopen + 1)
    /\ UNCHANGED <<upc, chClosed, crashed, appLayerUnused>>

AppLayer_Open(a) ==
    \/ AppLayer_Open_AlreadyOpen(a)
    \/ AppLayer_Open_Failed(a)
    \/ \E stream \in StreamsOf(nopen + 1) : AppLayer_Open_Acquire(a, stream)

\* lines 97, 108: Close() on a port that is not open returns nil
AppLayer_Close_NotOpen ==
    /\ Call
    /\ ~portIsOpen
    /\ ret' = Ret("Close", "nil", <<>>, "", <<>>, 0)
    /\ UNCHANGED <<sessionVars, buff, nopen, tpOpen, dev, chClosed, rd, pr, upc,
                   taken, crashed, tpErr, st, rl, ucur, out>>

\* lines 97-98: the caller blocks in sp.closeReqChann <- true
AppLayer_Close_Request ==
    /\ Call
    /\ portIsOpen
    /\ upc' = "close_req"
    /\ ret' = NoRet
    /\ UNCHANGED <<sessionVars, buff, nopen, tpOpen, dev, chClosed, rd, pr,
                   taken, crashed, tpErr, st, rl, ucur, out>>

AppLayer_Close ==
    \/ AppLayer_Close_NotOpen
    \/ AppLayer_Close_Request

\* line 98 and line 290: the unbuffered closeReqChann hands the request to a
\* readSerialPort that is at its select; the caller goes on to
\* <-sp.closeAckChann
AppLayer_closeReqChann_Transfer(g) ==
    /\ Running
    /\ upc = "close_req"
    /\ rd[g].pc = "select"
    /\ upc' = "close_ack"
    /\ rd' = [rd EXCEPT ![g].pc = "ack"]
    /\ ret' = NoRet
    /\ UNCHANGED <<sessionVars, buff, nopen, tpOpen, dev, chClosed, pr, ncalls,
                   taken, crashed, appLayerUnused>>

\* lines 291-292 and lines 99-107: readSerialPort calls sp.port.Close(), sends
\* what it returns on closeAckChann and returns; Close() receives it: on nil
\* it clears portIsOpen and closes rxChar and rxLine, on an error it does
\* nothing; it returns the error
AppLayer_closeAckChann_Transfer(g, err) ==
    /\ Running
    /\ upc = "close_ack"
    /\ rd[g].pc = "ack"
    /\ tpOpen' = tpOpen \ {port}
    /\ rd' = [rd EXCEPT ![g] = [rdNone EXCEPT !.pc = "done"]]
    /\ portIsOpen' = (IF err = "nil" THEN FALSE ELSE portIsOpen)
    /\ chClosed' = (IF err = "nil" THEN chClosed \cup {rxChar} ELSE chClosed)
    /\ upc' = "idle"
    /\ ret' = Ret("Close", err, <<>>, "", <<>>, port)
    /\ UNCHANGED <<port, name, baud, readTimeout, rxChar, buff, nopen, dev, pr,
                   ncalls, taken, crashed, appLayerUnused>>

\* line 282: the loop test `for sp.portIsOpen`
AppLayer_readSerialPort_Loop(g) ==
    /\ Running
    /\ rd[g].pc = "loop"
    /\ rd' = [rd EXCEPT ![g] = IF portIsOpen
                               THEN [@ EXCEPT !.pc = "read"]
                               ELSE [rdNone EXCEPT !.pc = "done"]]
    /\ ret' = NoRet
    /\ UNCHANGED <<sessionVars, buff, nopen, tpOpen, dev, chClosed, pr, userVars,
                   taken, crashed, appLayerUnused>>

\* lines 283-285: Read returns n bytes and they are appended to the buffer;
\* with a read timeout it may return 0 bytes, without one it blocks until
\* the device has sent a byte
AppLayer_readSerialPort_Read(g, n) ==
    /\ Running
    /\ rd[g].pc = "read"
    /\ n <= Len(dev)
    /\ n = 0 => readTimeout # "0"
    /\ rd' = [rd EXCEPT ![g] = [@ EXCEPT !.pc = IF n = 0 THEN "select" ELSE "send",
                                        !.chunk = SubSeq(dev, 1, n), !.i = 1]]
    /\ buff' = BufCopy([buff EXCEPT !.len = buff.len + n], buff.len, SubSeq(dev, 1, n))
    /\ dev' = SubSeq(dev, n + 1, Len(dev))
    /\ taken' = taken \o SubSeq(dev, 1, n)
    /\ ret' = NoRet
    /\ UNCHANGED <<sessionVars, nopen, tpOpen, chClosed, pr, userVars, crashed,
                   appLayerUnused>>

\* lines 286-288 and line 302: the unbuffered rxChar hands byte i of the
\* chunk to processSerialPort h; lines 304-312: the EOL byte empties
\* screenBuff, any other byte is appended to it
AppLayer_rxChar_Transfer(g, h) ==
    /\ Running
    /\ rd[g].pc = "send"
    /\ rxChar \notin chClosed
    /\ pr[h].pc = "recv"
    /\ pr[h].ch = rxChar
    /\ rd' = [rd EXCEPT ![g] = IF rd[g].i < Len(rd[g].chunk)
                               THEN [@ EXCEPT !.i = rd[g].i + 1]
                               ELSE [@ EXCEPT !.pc = "select", !.chunk = <<>>, !.i = 0]]
    /\ pr' = [pr EXCEPT ![h] =
                 IF rd[g].chunk[rd[g].i] = eol
                 THEN [prNone EXCEPT !.pc = "loop"]
                 ELSE [prNone EXCEPT !.pc = "loop",
                          !.screenBuff = Append(pr[h].screenBuff, rd[g].chunk[rd[g].i])]]
    /\ ret' = NoRet
    /\ UNCHANGED <<sessionVars, buff, nopen, tpOpen, dev, chClosed, userVars, taken,
                   crashed, appLayerUnused>>

\* lines 289-294: the select finds no sender on closeReqChann: default
AppLayer_readSerialPort_NoRequest(g) ==
    /\ Running
    /\ rd[g].pc = "select"
    /\ upc # "close_req"
    /\ rd' = [rd EXCEPT ![g].pc = "loop"]
    /\ ret' = NoRet
    /\ UNCHANGED <<sessionVars, buff, nopen, tpOpen, dev, chClosed, pr, userVars,
                   taken, crashed, appLayerUnused>>

\* lines 301-302: the loop test `for sp.portIsOpen`, then sp.rxChar is
\* evaluated for the receive
AppLayer_processSerialPort_Loop(h) ==
    /\ Running
    /\ pr[h].pc = "loop"
    /\ pr' = [pr EXCEPT ![h] = IF portIsOpen
                               THEN [@ EXCEPT !.pc = "recv", !.ch = rxChar]
                               ELSE [prNone EXCEPT !.pc = "done"]]
    /\ ret' = NoRet
    /\ UNCHANGED <<sessionVars, buff, nopen, tpOpen, dev, chClosed, rd, userVars,
                   taken, crashed, appLayerUnused>>

\* line 302 on a closed channel: the receive returns the zero byte at once
AppLayer_processSerialPort_RecvClosed(h) ==
    /\ Running
    /\ pr[h].pc = "recv"
    /\ pr[h].ch \in chClosed
    /\ Len(pr[h].screenBuff) < MaxLine
    /\ pr' = [pr EXCEPT ![h] = [prNone EXCEPT !.pc = "loop",
                                   !.screenBuff = Append(pr[h].screenBuff, 0)]]
    /\ ret' = NoRet
    /\ UNCHANGED <<sessionVars, buff, nopen, tpOpen, dev, chClosed, rd, userVars,
                   taken, crashed, appLayerUnused>>

\* the steps of the goroutines and of a call in progress
AppLayer_Run ==
    \/ \E g \in Gens : AppLayer_closeReqChann_Transfer(g)
    \/ \E g \in Gens, err \in {"nil", "CloseErr"} : AppLayer_closeAckChann_Transfer(g, err)
    \/ \E g \in Gens : AppLayer_readSerialPort_Loop(g)
    \/ \E g \in Gens, n \in 0..MaxChunk : AppLayer_readSerialPort_Read(g, n)
    \/ \E g \in Gens, h \in Gens : AppLayer_rxChar_Transfer(g, h)
    \/ \E g \in Gens : AppLayer_readSerialPort_NoRequest(g)
    \/ \E h \in Gens : AppLayer_processSerialPort_Loop(h)
    \/ \E h \in Gens : AppLayer_processSerialPort_RecvClosed(h)

AppLayer_Next ==
    \/ \E a \in OpenArgs : AppLayer_Open(a)
    \/ AppLayer_Close
    \/ AppLayer_Run

\* fair scheduling: a goroutine that can take a step, and a channel operation
\* whose two sides are ready, is not postponed forever; the caller is free
\* to make no further call
AppLayer_Fairness ==
    /\ \A g \in Gens : WF_vars(AppLayer_closeReqChann_Transfer(g))
    /\ \A g \in Gens :
          WF_vars(\E err \in {"nil", "CloseErr"} : AppLayer_closeAckChann_Transfer(g, err))
    /\ \A g \in Gens : WF_vars(AppLayer_readSerialPort_Loop(g))
    /\ \A g \in Gens : WF_vars(\E n \in 0..MaxChunk : AppLayer_readSerialPort_Read(g, n))
    /\ \A g \in Gens : WF_vars(\E h \in Gens : AppLayer_rxChar_Transfer(g, h))
    /\ \A g \in Gens : WF_vars(AppLayer_readSerialPort_NoRequest(g))
    /\ \A h \in Gens : WF_vars(AppLayer_processSerialPort_Loop(h))
    /\ \A h \in Gens : WF_vars(AppLayer_processSerialPort_RecvClosed(h))

SpecAppLayer == AppLayer_Init /\ [][AppLayer_Next]_vars /\ AppLayer_Fairness

(***************************************************************************)
(* Properties.                                                             *)
(***************************************************************************)
\* the session is open and Open() has returned
SessionOpen == Running /\ portIsOpen /\ upc # "open2"

\* C1: byte conservation.  While the session is open, Available() plus the
\* number of bytes Read()/ReadLine() handed out equals the number of bytes
\* readSerialPort took from the Transport.
C1_ByteConservation ==
    SessionOpen => Available + Len(out) = Len(taken)

\* C2: ordering and framing.  The bytes handed out by successive
\* Read()/ReadLine() calls are the device's bytes in arrival order, and a
\* line ReadLine() returns is exactly one EOL-delimited segment.
C2_OrderAndFraming ==
    SessionOpen =>
        /\ Len(out) <= Len(taken)
        /\ SubSeq(taken, 1, Len(out)) = out
        /\ (ret.op = "ReadLine" /\ ret.err = "nil" /\ ret.raw # <<>>) =>
               IndexByte(ret.raw, eol) = Len(ret.raw)

C4_TimeoutLeavesNoTask ==
    (ret.op = "WaitForRegexTimeout" /\ ret.err = "Timeout") =>
        /\ st[ret.n].pc = "done"
        /\ rl[ret.n].pc = "idle"

\* C5: when Close() on an open session returns, the readSerialPort and the
\* processSerialPort of the matching Open() have terminated.
C5_CloseJoinsTasks ==
    (ret.op = "Close" /\ ret.n # 0) =>
        /\ rd[ret.n].pc = "done"
        /\ pr[ret.n].pc = "done"

\* C6: Close() twice in a row never fails, panics or blocks: the program
\* does not panic on the channel Close() closed, and a Close() on a session
\* that is not open returns nil, leaves every field as it was and does not
\* close the Transport.
C6_CloseTwice ==
    /\ [](crashed # "send on closed channel")
    /\ [][(upc = "idle" /\ ~portIsOpen /\ ret'.op = "Close") =>
              /\ ret'.err = "nil"
              /\ UNCHANGED <<sessionVars, buff, envVars, rd, pr, st, rl>>]_vars

\* C7: Open() on a session that is open returns AlreadyOpen and changes
\* nothing: the handle, name, baud, read timeout, buffer, channels and
\* goroutines are as before the call.
C7_OpenOnOpenChangesNothing ==
    [][(upc = "idle" /\ portIsOpen /\ ret'.op = "Open") =>
           /\ ret'.err = "AlreadyOpen"
           /\ UNCHANGED <<sessionVars, buff, envVars, rd, pr, st, rl,
                          taken, out, crashed>>]_vars

\* C7, the case: Open() has returned AlreadyOpen while both goroutines of the
\* session run and bytes are buffered
C7_AlreadyOpenReturned ==
    /\ ret.op = "Open"
    /\ ret.err = "AlreadyOpen"
    /\ rd[port].pc \notin {"none", "done"}
    /\ pr[port].pc \notin {"none", "done"}
    /\ Available > 0

\* C8: a ReadLine() that got the line-ready signal returns one delimited
\* line, and one that timed out returns the buffered bytes, both without
\* error.
C8_ReadLineReturnsLine ==
    (ret.op = "ReadLine" /\ ret.path \in {"signal", "timeout"}) =>
        /\ ret.err = "nil"
        /\ ret.path = "signal" => IndexByte(ret.raw, eol) = Len(ret.raw)

\* C9: the result of ReadLine() on the line-ready path is the line without
\* its trailing CR/LF; every other byte, an interior CR or LF included, is
\* kept.
C9_OnlyTrailingEOLRemoved ==
    (ret.op = "ReadLine" /\ ret.path = "signal" /\ ret.err = "nil") =>
        \E k \in 0..Len(ret.raw) :
            /\ ret.val = SubSeq(ret.raw, 1, k)
            /\ \A j \in (k + 1)..Len(ret.raw) : IsEolByte(ret.raw[j])
            /\ (k = 0 \/ ~IsEolByte(ret.raw[k]))

\* C10: WaitForRegexTimeout() with a pattern that does not compile returns
\* an error; the program does not panic.
C10_InvalidPatternReturnsError ==
    crashed # "regexp: Compile: missing closing )"

\* C11: once readSerialPort has seen the Read error of a handle that fails
\* for good, the session is Closed without a Close(): a Read(), ReadLine(),
\* Write() or WaitForRegexTimeout() the caller starts from then on returns
\* NotOpen or TransportIOError at once.
C11_ReadErrorClosesSession ==
    [][(/\ upc = "idle"
        /\ port \in Gens
        /\ rd[port].sawErr
        /\ ncalls' = ncalls + 1
        /\ \/ ret'.op \in {"Read", "ReadLine", "Write", "WaitForRegexTimeout"}
           \/ upc' \in {"read_pop", "read_reset", "readline", "wait"})
       => ret'.err \in {"NotOpen", "TransportIOError"}]_vars

\* C12: a WaitForRegexTimeout() that follows one that returned Timeout gets
\* the lines the device sends from then on: while the later call waits, the
\* search task left from the earlier call takes no line-ready signal (and so
\* consumes no line).
C12_TimedOutTaskTakesNoLine ==
    [][\A t \in Tasks :
          (/\ st[t].timeExpired
           /\ upc = "wait"
           /\ ucur # t
           /\ rl[t].pc = "select")
          => rl'[t].pc # "scan"]_vars

\* C13: after EOL(c) no ReadLine() fails or discards bytes because of the
\* change: a ReadLine() that took a line-ready signal and found no delimiter
\* discards no byte that was a delimiter when the signal was made.
C13_EOLChangeDiscardsNothing ==
    \A c \in Callers :
        (rl[c].pc = "commit" /\ rl[c].err = "EOF") =>
            \A b \in EolBytes : IndexByte(rl[c].line, b) = 0

\* C16: an Open() whose openPort fails returns the error and leaves the
\* session Closed: no handle is stored, no goroutine starts, the channels and
\* the buffer are as before, and the next Open() is not refused as
\* AlreadyOpen.
C16_OpenFailureLeavesClosed ==
    [][/\ (ret'.op = "Open" /\ ret'.err = "OpenFailed") =>
              /\ ~portIsOpen'
              /\ upc' = "idle"
              /\ UNCHANGED <<port, name, baud, eol, rxChar, waitline, buff,
                             envVars, rd, pr, st, rl>>
       /\ (ret.op = "Open" /\ ret.err = "OpenFailed" /\ ret'.op = "Open") =>
              ret'.err # "AlreadyOpen"]_vars

\* C16, the case: an Open() has failed on a session that was never open
C16_OpenFailedReturned ==
    /\ ret.op = "Open"
    /\ ret.err = "OpenFailed"
    /\ readTimeout = "5s"
    /\ nopen = 0

\* C17: while the Session is Closed, a call of Write, Print, Println, Printf,
\* Read, ReadLine or WaitForRegexTimeout returns the NotOpen error at once:
\* nothing is handed to the Transport, no task is started, and the Shared
\* Buffer, the channels and the tasks are left as they were.
C17_NotOpenGuard ==
    [][(/\ ~portIsOpen
        /\ ncalls' = ncalls + 1
        /\ ret'.op \notin {"Open", "Close", "EOL"}
        /\ upc' # "open2")
       => /\ ret'.op \in {"Write", "Print", "Read", "ReadLine", "WaitForRegexTimeout"}
          /\ ret'.err = "NotOpen"
          /\ ret'.val = <<>> /\ ret'.n = 0
          /\ upc' = "idle"
          /\ UNCHANGED <<sessionVars, buff, envVars, rd, pr, st, rl, crashed>>]_vars

\* a Print on a Session that was open and has been closed
C17_NotOpenAfterClose ==
    /\ ~portIsOpen /\ nopen > 0
    /\ ret.op = "Print" /\ ret.err = "NotOpen"

\* C18: Read() on an Open Session is a FIFO pop that does not block: when it
\* returns a byte, the buffer was not empty, the byte is the earliest unread
\* one and Available() is one less; when it returns BufferEmpty (io.EOF), the
\* buffer was empty and its unread bytes are the same afterwards.
C18_ReadIsFifoPop ==
    [][/\ (ret'.op = "Read" /\ ret'.err = "nil") =>
              /\ BufLen(buff) > 0
              /\ ret'.val = <<BufString(buff)[1]>>
              /\ BufLen(buff') = BufLen(buff) - 1
       /\ (ret'.op = "Read" /\ ret'.err = "EOF") =>
              /\ BufLen(buff) = 0
              /\ BufString(buff') = BufString(buff)]_vars

\* C19: expiry is final: a WaitForRegexTimeout call whose timer fired before
\* its search task delivered a result returns Timeout, never a match that was
\* delivered after the timer fired.
C19_ExpiryIsFinal ==
    [][(/\ upc = "wait"
        /\ st[ucur].firedFirst
        /\ ret'.op = "WaitForRegexTimeout")
       => ret'.err = "Timeout"]_vars

\* C20: mutual exclusion on the Shared Buffer: at most one operation on
\* sp.buff is in progress in any reachable state.  In progress are: a
\* readSerialPort between the reslice and the copy of its Write, the caller
\* between the empty test and the Reset or the pop of its Read(), and a
\* ReadLine() of the caller or of a search task inside ReadString (after the
\* scan for the EOL byte, before the read offset moves).
C20_BufferOpsInProgress ==
    {<<"Write", g>> : g \in {h \in Gens : rd[h].pc = "copy"}}
        \cup {<<"ReadByte", 0>> : x \in {y \in {0} : upc \in {"read_reset", "read_pop"}}}
        \cup {<<"ReadString", c>> : c \in {d \in Callers : rl[d].pc = "commit"}}

C20_BufferMutualExclusion ==
    Running => Cardinality(C20_BufferOpsInProgress) <= 1

\* C14: Close always ends in Closed: when a Close() call on an Open Session
\* returns, portIsOpen is false whatever the Transport's Close returned, and
\* the Transport's Close was called once on the open handle (it was open
\* before the step that returns and only it is released by it).
C14_CloseEndsClosed ==
    [][(ret'.op = "Close" /\ upc # "idle")
       => /\ ~portIsOpen'
          /\ port \in tpOpen
          /\ tpOpen' = tpOpen \ {port}]_vars

\* C15: Close terminates: under fair scheduling a Close() call on an Open
\* Session that has started (the caller is in the request or waits for the
\* acknowledgement) eventually returns.
C15_CloseTerminates ==
    (upc \in {"close_req", "close_ack"}) ~> (upc = "idle")

\* C21: single pipeline per Session: in every reachable state at most one
\* readSerialPort and at most one processSerialPort are alive, and a
\* readSerialPort that is reading or appending works on the handle its own
\* Open() acquired.
C21_SinglePipeline ==
    Running =>
        /\ Cardinality({g \in Gens : rd[g].pc \notin {"none", "done"}}) <= 1
        /\ Cardinality({h \in Gens : pr[h].pc \notin {"none", "done"}}) <= 1
        /\ \A g \in Gens : rd[g].pc \in {"read", "copy"} => rd[g].port = g

\* C22: no send on a closed channel: no interleaving of Close() with
\* readSerialPort leaves readSerialPort sending, or blocked in the send of, a
\* byte on a byte channel that Close() has closed, and the program does not
\* crash with that panic.
C22_NoSendOnClosedChannel ==
    /\ crashed # "send on closed channel"
    /\ \A g \in Gens : rd[g].pc = "send" => rd[g].ch \notin chClosed

\* C23: the pipeline does not depend on a consumer: on an Open Session,
\* under fair scheduling, the bytes the device still has to send are
\* eventually all read and appended (or the Session is closed or the
\* program has crashed), whether or not a caller calls ReadLine().
C23_PipelineNeedsNoConsumer ==
    (portIsOpen /\ dev # <<>>) ~> (dev = <<>> \/ ~portIsOpen \/ ~Running)

\* C24: Reader Loop termination, the part about reads: a readSerialPort that
\* has seen a Read return the error of a handle that fails for good performs
\* no further Transport read.
C24_NoReadAfterPermanentError ==
    \A g \in Gens : rd[g].sawErr => rd[g].pc # "read"

\* C25: Line Assembler termination: under fair scheduling, once Close() has
\* returned and the Session stays Closed, every processSerialPort that is
\* alive eventually terminates (or the Session is opened again or the
\* program has crashed).
C25_AssemblerTerminates ==
    \A h \in Gens :
        (~portIsOpen /\ upc = "idle" /\ pr[h].pc \notin {"none", "done"})
            ~> (pr[h].pc = "done" \/ portIsOpen \/ ~Running)

\* C26: Line Assembler framing: every byte a processSerialPort takes is a
\* byte that a readSerialPort forwards in the same step; an EOL byte
\* finalizes the line (the accumulator followed by the EOL byte) and makes
\* one line-ready signal, any other byte is appended to the accumulator; the
\* accumulator is empty right after the signal has been handed over.  So the
\* k-th finalized line is the bytes forwarded after the (k-1)-th EOL byte up
\* to and including the k-th.
C26_AssemblerFraming ==
    [][\A h \in Gens :
         /\ (pr[h].pc = "recv" /\ pr'[h].pc # "recv") =>
               \E g \in Gens :
                  /\ rd[g].pc = "send" /\ rd'[g] # rd[g]
                  /\ LET b == rd[g].chunk[rd[g].i]
                     IN  IF b = eol
                         THEN /\ pr'[h].pc = "signal"
                              /\ pr'[h].last = b
                              /\ pr'[h].screenBuff = pr[h].screenBuff
                         ELSE /\ pr'[h].pc = "loop"
                              /\ pr'[h].screenBuff = Append(pr[h].screenBuff, b)
         /\ (pr[h].pc = "signal" /\ pr'[h].pc # "signal") =>
               pr'[h].screenBuff = <<>>]_vars

\* C27: a line-ready signal always finds its line: with a caller that never
\* changes the EOL and never uses Read(), a ReadLine() that has received the
\* signal finds an EOL byte in the Shared Buffer: its ReadString does not end
\* with io.EOF, and what it takes is a line that ends with the EOL byte.
C27_SignalFindsLine ==
    \A c \in Callers :
        (Running /\ rl[c].pc = "commit") =>
            /\ rl[c].err = "nil"
            /\ rl[c].line # <<>>
            /\ rl[c].line[Len(rl[c].line)] = eol

\* C28: the search task is eventually gone: under fair scheduling every
\* search task that WaitForRegexTimeout has started eventually terminates
\* (or the program has crashed), whether its call returns a match or Timeout.
C28_SearchTaskTerminates ==
    \A t \in Tasks :
        (st[t].pc \notin {"none", "done"}) ~> (st[t].pc = "done" \/ ~Running)

\* a search task that has terminated after its call returned Timeout
C28_TaskGoneAfterTimeout ==
    \E t \in Tasks : st[t].pc = "done" /\ st[t].timeExpired

\* C29: Available() never counts bytes the device did not produce: in every
\* reachable state, a new Session that was never opened included, Available()
\* is at most the number of bytes readSerialPort has read from the Transport
\* in the current session.
C29_AvailableWithinBytesRead ==
    Running => Available <= Len(taken)

====
